---- MODULE Spec2Model ----
(***************************************************************************)
(* A model of the LCD client's two query components:                       *)
(*   - AsyncLCDUtils.validators_with_voting_power (lcd/lcdutils.py), the   *)
(*     join of the consensus validator set with the staking validators;    *)
(*   - AsyncDistributionAPI (lcd/api/distribution.py), the distribution    *)
(*     module queries and the normalisation of their responses.            *)
(* Spec is the aggregation component, SpecDist the distribution component. *)
(***************************************************************************)
EXTENDS Integers, Sequences, FiniteSets, TLC

VARIABLES
    pc,                      \* position of the single caller's coroutine
    op,                      \* the operation being executed ("none" when idle)
    requests,                \* outbound requests of this invocation, in issue order
    validator_set_response,  \* lcdutils.py:23  local of validators_with_voting_power
    validators,              \* lcdutils.py:26
    validator_set,           \* lcdutils.py:27  index pub_key -> validator-set entry
    res,                     \* lcdutils.py:30  the mapping under construction
    idx,                     \* position of the for loop of lcdutils.py:31
    ret,                     \* what the call returned to its caller
    err,                     \* the exception the call raised ("none" if none)
    arg,                     \* address argument of a distribution operation
    response,                \* parsed JSON the client's _get returned
    calls,                   \* distribution operations invoked so far
    gets                     \* GET requests the distribution API has issued so far

vars == <<pc, op, requests, validator_set_response, validators, validator_set,
          res, idx, ret, err, arg, response, calls, gets>>

aggLocals == <<validator_set_response, validators, validator_set, res, idx>>
distVars == <<arg, response, calls, gets>>

----------------------------------------------------------------------------
(* Bounds of the model *)

MaxValSet == 2       \* longest consensus validator set
MaxValidators == 2   \* longest staking validator list
MaxItems == 2        \* longest "rewards" array of a delegator-rewards response
MaxCalls == 2        \* distribution operations invoked in one behaviour

----------------------------------------------------------------------------
(* Values *)

TransportErrors == {"ClientConnectionError", "TimeoutError"}

NoResult == [kind |-> "none"]
Returned(v) == [kind |-> "value", value |-> v]

EmptyMap == [k \in {} |-> 0]

\* Python's d[k] = v on a dict
DictSet(d, k, v) == [x \in (DOMAIN d) \cup {k} |-> IF x = k THEN v ELSE d[x]]

SeqsUpTo(S, n) == UNION {[1..k -> S] : k \in 0..n}

\* Decimal strings are sequences of characters.
DigitVal(c) ==
    CASE c = "0" -> 0 [] c = "1" -> 1 [] c = "2" -> 2 [] c = "3" -> 3
      [] c = "4" -> 4 [] c = "5" -> 5 [] c = "6" -> 6 [] c = "7" -> 7
      [] c = "8" -> 8 [] c = "9" -> 9

RECURSIVE PyNat(_)
PyNat(s) ==
    IF s = <<>> THEN 0
    ELSE PyNat(SubSeq(s, 1, Len(s) - 1)) * 10 + DigitVal(s[Len(s)])

\* int(str) with the sign dropped
PyInt_unsigned(s) == IF s[1] = "-" THEN PyNat(Tail(s)) ELSE PyNat(s)

\* int(str) as used by lcdutils.py:37-38
PyInt(s) == IF s[1] = "-" THEN 0 - PyNat(Tail(s)) ELSE PyNat(s)

PubKeys == {"A", "B"}
OperatorAddresses == {"op1", "op2"}
VotingPowers == {<<"5">>, <<"1", "2">>}
ProposerPriorities == {<<"1">>, <<"-", "3">>}

\* an entry of the consensus query's "validators" field
ValidatorSetEntries ==
    [pub_key : PubKeys, voting_power : VotingPowers,
     proposer_priority : ProposerPriorities]

\* a record of the staking query
StakingValidators ==
    [operator_address : OperatorAddresses, consensus_pubkey : PubKeys]

----------------------------------------------------------------------------
(* Request log *)

Issue(r) == Append(requests, [req |-> r, status |-> "pending"])

\* the pending request completes with status s
Complete(s) ==
    [i \in 1..Len(requests) |->
        IF requests[i].status = "pending"
        THEN [requests[i] EXCEPT !.status = s] ELSE requests[i]]

InFlight == {i \in 1..Len(requests) : requests[i].status = "pending"}

----------------------------------------------------------------------------
(* lcd/lcdutils.py *)

index_by_pub_key_keep_first(m, o) ==
    IF o.pub_key \in DOMAIN m THEN m ELSE DictSet(m, o.pub_key, o)

\* lcdutils.py:10-12
index_by_pub_key(m, o) == DictSet(m, o.pub_key, o)

\* functools.reduce(f, seq, initial) with f = index_by_pub_key (lcdutils.py:27-29)
RECURSIVE reduce_index(_, _)
reduce_index(seq, m) ==
    IF seq = <<>> THEN m
    ELSE reduce_index(Tail(seq), index_by_pub_key(m, Head(seq)))

JoinEntry_unsigned(v, delegate_info) ==
    [validator_info |-> v,
     voting_power |-> PyInt_unsigned(delegate_info.voting_power),
     proposer_priority |-> PyInt_unsigned(delegate_info.proposer_priority)]

\* lcdutils.py:35-39, the value stored under v.operator_address
JoinEntry(v, delegate_info) ==
    [validator_info |-> v,
     voting_power |-> PyInt(delegate_info.voting_power),
     proposer_priority |-> PyInt(delegate_info.proposer_priority)]

AggIdle ==
    /\ validator_set_response = <<>>
    /\ validators = <<>>
    /\ validator_set = EmptyMap
    /\ res = EmptyMap
    /\ idx = 0

Call_concurrent ==
    /\ pc = "idle"
    /\ op' = "validators_with_voting_power"
    /\ requests' = <<[req |-> "tendermint.validator_set", status |-> "pending"],
                     [req |-> "staking.validators", status |-> "pending"]>>
    /\ pc' = "await_validator_set"
    /\ ret' = NoResult
    /\ err' = "none"
    /\ UNCHANGED <<aggLocals, distVars>>

\* lcdutils.py:23-25: the call starts and awaits the consensus query
Call ==
    /\ pc = "idle"
    /\ op' = "validators_with_voting_power"
    /\ requests' = Issue("tendermint.validator_set")
    /\ pc' = "await_validator_set"
    /\ ret' = NoResult
    /\ err' = "none"
    /\ UNCHANGED <<aggLocals, distVars>>

\* lcdutils.py:23-26: the consensus query answers; the staking query is awaited
ValidatorSetOk ==
    /\ pc = "await_validator_set"
    /\ \E r \in SeqsUpTo(ValidatorSetEntries, MaxValSet) :
          validator_set_response' = [validators |-> r]
    /\ requests' = [i \in 1..(Len(requests) + 1) |->
                      IF i <= Len(requests) THEN Complete("ok")[i]
                      ELSE [req |-> "staking.validators", status |-> "pending"]]
    /\ pc' = "await_validators"
    /\ UNCHANGED <<op, validators, validator_set, res, idx, ret, err, distVars>>

\* lcdutils.py:23-25: the consensus query raises; the exception leaves the call
ValidatorSetFail ==
    /\ pc = "await_validator_set"
    /\ \E e \in TransportErrors :
          /\ requests' = Complete(e)
          /\ err' = e
    /\ pc' = "failed"
    /\ UNCHANGED <<op, aggLocals, ret, distVars>>

ValidatorsFail_swallow ==
    /\ pc = "await_validators"
    /\ \E e \in TransportErrors : requests' = Complete(e)
    /\ ret' = Returned(res)
    /\ pc' = "done"
    /\ UNCHANGED <<op, aggLocals, err, distVars>>

\* lcdutils.py:26: the staking query raises
ValidatorsFail ==
    /\ pc = "await_validators"
    /\ \E e \in TransportErrors :
          /\ requests' = Complete(e)
          /\ err' = e
    /\ pc' = "failed"
    /\ UNCHANGED <<op, aggLocals, ret, distVars>>

\* lcdutils.py:26-30: the staking query answers; the index is built
ValidatorsOk ==
    /\ pc = "await_validators"
    /\ \E vs \in SeqsUpTo(StakingValidators, MaxValidators) : validators' = vs
    /\ requests' = Complete("ok")
    /\ validator_set' = reduce_index(validator_set_response["validators"], EmptyMap)
    /\ res' = EmptyMap
    /\ idx' = 1
    /\ pc' = "loop"
    /\ UNCHANGED <<op, validator_set_response, ret, err, distVars>>

\* lcdutils.py:31-39: one iteration of the for loop; a dict subscript with a
\* key the dict lacks raises KeyError. The values of the index are entries,
\* never None, so the test of lines 33-34 never succeeds.
LoopStep ==
    /\ pc = "loop"
    /\ idx <= Len(validators)
    /\ LET v == validators[idx] IN
          IF v.consensus_pubkey \in DOMAIN validator_set
          THEN /\ res' = DictSet(res, v.operator_address,
                                 JoinEntry(v, validator_set[v.consensus_pubkey]))
               /\ idx' = idx + 1
               /\ UNCHANGED <<pc, err>>
          ELSE /\ pc' = "failed"
               /\ err' = "KeyError"
               /\ UNCHANGED <<res, idx>>
    /\ UNCHANGED <<op, requests, validator_set_response, validators,
                   validator_set, ret, distVars>>

\* lcdutils.py:40
ReturnRes ==
    /\ pc = "loop"
    /\ idx > Len(validators)
    /\ ret' = Returned(res)
    /\ pc' = "done"
    /\ UNCHANGED <<op, requests, aggLocals, err, distVars>>

\* the caller takes the outcome; the invocation's locals are dropped
Finish ==
    /\ pc \in {"done", "failed"}
    /\ pc' = "idle"
    /\ op' = "none"
    /\ requests' = <<>>
    /\ validator_set_response' = <<>>
    /\ validators' = <<>>
    /\ validator_set' = EmptyMap
    /\ res' = EmptyMap
    /\ idx' = 0
    /\ ret' = NoResult
    /\ err' = "none"
    /\ response' = NoResult
    /\ arg' = "none"
    /\ UNCHANGED <<calls, gets>>

----------------------------------------------------------------------------
(* JSON values as the client's _get hands them over *)

JNull == [t |-> "null"]
JList(s) == [t |-> "list", v |-> s]
JStr(s) == [t |-> "str", v |-> s]
JDict(d) == [t |-> "dict", v |-> d]

\* Python truth value of a parsed JSON value: None and [] are false
Truthy(j) == j.t = "list" /\ j.v # <<>>

Raise(e) == [kind |-> "raise", error |-> e]

CoinsData ==
    {<<>>,
     <<[denom |-> "uakt", amount |-> <<"1", "0", "0">>]>>,
     <<[denom |-> "ibc/27", amount |-> <<"7">>], [denom |-> "uakt", amount |-> <<"0">>]>>}

\* lcd.core.Coin.from_data: {denom, amount} -> Coin, the amount a decimal string
Coin_from_data(d) ==
    [type |-> "Coin", denom |-> d.denom, amount |-> PyInt(d.amount)]

\* lcd.core.Coins.from_data on a JSON array: one Coin per element, in order
Coins_from_data(l) ==
    [type |-> "Coins", coins |-> [i \in 1..Len(l) |-> Coin_from_data(l[i])]]

\* Coins.from_data on a parsed JSON value. What it does with null is not
\* fixed by its callers, so both outcomes are kept: it raises, or (lenient)
\* it yields an empty Coins
Coins_from_json(j, lenient) ==
    IF j.t = "list" THEN Returned(Coins_from_data(j.v))
    ELSE IF lenient THEN Returned(Coins_from_data(<<>>))
    ELSE Raise("TypeError")

Addresses == {"akash1qx", "akashvaloper1qx", "bad address"}
ValidatorAddresses == {"akashvaloper1qx", "akashvaloper1zz"}

AddressOps == {"rewards", "validator_rewards", "withdraw_address"}
PlainOps == {"community_pool", "parameters"}

\* the f-strings and literals of distribution.py:42, 60, 84-86, 94, 103
Path(o, a) ==
    CASE o = "rewards" -> <<"/distribution/delegators/", a, "/rewards">>
      [] o = "validator_rewards" -> <<"/distribution/validators/", a>>
      [] o = "withdraw_address" ->
             <<"/distribution/delegators/", a, "/withdraw_address">>
      [] o = "community_pool" -> <<"/distribution/community_pool">>
      [] o = "parameters" -> <<"/distribution/parameters">>

----------------------------------------------------------------------------
(* lcd/api/distribution.py *)

IssueGet_validating(o, a) ==
    /\ pc = "idle"
    /\ calls < MaxCalls
    /\ op' = o
    /\ arg' = a
    /\ calls' = calls + 1
    /\ ret' = NoResult
    /\ IF o \in AddressOps /\ a \notin {"akash1qx", "akashvaloper1qx"}
       THEN /\ pc' = "failed"
            /\ err' = "ValidationError"
            /\ UNCHANGED <<requests, gets>>
       ELSE /\ pc' = "await_get"
            /\ err' = "none"
            /\ requests' = Issue(Path(o, a))
            /\ gets' = gets + 1
    /\ UNCHANGED <<aggLocals, response>>

\* the await self._c._get(...) each operation starts with
\* (distribution.py:42, 60, 84, 94, 103); the argument is not inspected
IssueGet(o, a) ==
    /\ pc = "idle"
    /\ calls < MaxCalls
    /\ op' = o
    /\ arg' = a
    /\ calls' = calls + 1
    /\ requests' = Issue(Path(o, a))
    /\ gets' = gets + 1
    /\ pc' = "await_get"
    /\ ret' = NoResult
    /\ err' = "none"
    /\ UNCHANGED <<aggLocals, response>>

RewardsCall == \E a \in Addresses : IssueGet("rewards", a)
ValidatorRewardsCall == \E a \in Addresses : IssueGet("validator_rewards", a)
WithdrawAddressCall == \E a \in Addresses : IssueGet("withdraw_address", a)
CommunityPoolCall == IssueGet("community_pool", "none")
ParametersCall == IssueGet("parameters", "none")

GetFail_retry ==
    /\ pc = "await_get"
    /\ \E e \in TransportErrors :
          IF Len(requests) < 2
          THEN /\ requests' = Append(Complete(e), [req |-> requests[1].req,
                                                   status |-> "pending"])
               /\ gets' = gets + 1
               /\ UNCHANGED <<pc, err>>
          ELSE /\ requests' = Complete(e)
               /\ err' = e
               /\ pc' = "failed"
               /\ UNCHANGED gets
    /\ UNCHANGED <<op, aggLocals, ret, arg, response, calls>>

\* _get raises; no operation catches it (distribution.py:42, 60, 84, 94, 103)
GetFail ==
    /\ pc = "await_get"
    /\ \E e \in TransportErrors :
          /\ requests' = Complete(e)
          /\ err' = e
    /\ pc' = "failed"
    /\ UNCHANGED <<op, aggLocals, ret, distVars>>

\* the operation ends with outcome out, given the response j of its GET
Settle(j, out) ==
    /\ response' = j
    /\ requests' = Complete("ok")
    /\ IF out.kind = "raise"
       THEN /\ pc' = "failed"
            /\ err' = out.error
            /\ UNCHANGED ret
       ELSE /\ pc' = "done"
            /\ ret' = out
            /\ UNCHANGED err
    /\ UNCHANGED <<op, aggLocals, arg, calls, gets>>

\* entries of the "rewards" array; the "reward" key may be absent
RewardItems ==
    [validator_address : ValidatorAddresses]
      \cup [validator_address : ValidatorAddresses,
            reward : {JNull} \cup {JList(c) : c \in CoinsData}]

RewardsResponses ==
    [rewards : {JNull} \cup {JList(s) : s \in SeqsUpTo(RewardItems, MaxItems)},
     total : {JNull} \cup {JList(c) : c \in CoinsData}]

\* distribution.py:45, the value of one comprehension entry;
\* item["reward"] raises KeyError when the key is absent
RewardOf(item) ==
    IF "reward" \notin DOMAIN item THEN Raise("KeyError")
    ELSE Returned(Coins_from_data(IF Truthy(item.reward) THEN item.reward.v ELSE <<>>))

\* distribution.py:44-47, the dict comprehension over a list, left to right
RECURSIVE RewardsDict(_, _)
RewardsDict(items, d) ==
    IF items = <<>> THEN Returned(d)
    ELSE LET r == RewardOf(Head(items)) IN
         IF r.kind = "raise" THEN r
         ELSE RewardsDict(Tail(items), DictSet(d, Head(items).validator_address, r.value))

\* distribution.py:43-49; iterating None raises TypeError
RewardsResult(j, lenient) ==
    IF j.rewards.t # "list" THEN Raise("TypeError")
    ELSE LET m == RewardsDict(j.rewards.v, EmptyMap)
             t == Coins_from_json(j.total, lenient) IN
         IF m.kind = "raise" THEN m
         ELSE IF t.kind = "raise" THEN t
         ELSE Returned([rewards |-> m.value, total |-> t.value])

\* distribution.py:42-49
RewardsOk ==
    /\ pc = "await_get"
    /\ op = "rewards"
    /\ \E j \in RewardsResponses, lenient \in BOOLEAN :
          Settle(j, RewardsResult(j, lenient))

\* the "val_commission" object of a validator response
ValCommissions == [commission : {JNull} \cup {JList(c) : c \in CoinsData}]

\* the node's validator response carries all three fields, null or [] where
\* the validator has nothing accrued
ValidatorRewardsResponses ==
    [operator_address : {"akash1op", "akash1zz"},
     val_commission : ValCommissions,
     self_bond_rewards : {JNull} \cup {JList(c) : c \in CoinsData}]

\* distribution.py:66 and 70: Coin.from_data({'denom':'uakt','amount':0}),
\* a single Coin, the amount already a number
ZeroCoin == [type |-> "Coin", denom |-> "uakt", amount |-> 0]

\* distribution.py:62-72
ValidatorRewardsResult(j) ==
    Returned(
       [self_bond_rewards |->
            IF Truthy(j.self_bond_rewards)
            THEN Coins_from_data(j.self_bond_rewards.v) ELSE ZeroCoin,
        val_commission |->
            IF Truthy(j.val_commission.commission)
            THEN Coins_from_data(j.val_commission.commission.v) ELSE ZeroCoin,
        operator_address |-> j.operator_address])

\* distribution.py:60-72
ValidatorRewardsOk ==
    /\ pc = "await_get"
    /\ op = "validator_rewards"
    /\ \E j \in ValidatorRewardsResponses : Settle(j, ValidatorRewardsResult(j))

\* distribution.py:84-86, the response is handed back as it is
WithdrawAddressOk ==
    /\ pc = "await_get"
    /\ op = "withdraw_address"
    /\ \E j \in {JStr("akash1wd"), JStr("akash1qx")} : Settle(j, Returned(j))

\* distribution.py:94-95
CommunityPoolOk ==
    /\ pc = "await_get"
    /\ op = "community_pool"
    /\ \E j \in {JNull} \cup {JList(c) : c \in CoinsData}, lenient \in BOOLEAN :
          Settle(j, Coins_from_json(j, lenient))

\* distribution.py:103
ParametersOk ==
    /\ pc = "await_get"
    /\ op = "parameters"
    /\ \E j \in {JDict([community_tax |-> "0.02"]),
                 JDict([community_tax |-> "0.05", withdraw_addr_enabled |-> TRUE])} :
          Settle(j, Returned(j))

Init ==
    /\ pc = "idle"
    /\ op = "none"
    /\ requests = <<>>
    /\ AggIdle
    /\ ret = NoResult
    /\ err = "none"
    /\ arg = "none"
    /\ response = NoResult
    /\ calls = 0
    /\ gets = 0

Next ==
    \/ Call
    \/ ValidatorSetOk
    \/ ValidatorSetFail
    \/ ValidatorsOk
    \/ ValidatorsFail
    \/ LoopStep
    \/ ReturnRes
    \/ Finish

Spec == Init /\ [][Next]_vars

NextDist ==
    \/ RewardsCall
    \/ ValidatorRewardsCall
    \/ WithdrawAddressCall
    \/ CommunityPoolCall
    \/ ParametersCall
    \/ GetFail
    \/ RewardsOk
    \/ ValidatorRewardsOk
    \/ WithdrawAddressOk
    \/ CommunityPoolOk
    \/ ParametersOk
    \/ Finish

SpecDist == Init /\ [][NextDist]_vars

----------------------------------------------------------------------------
(* Properties of validators_with_voting_power, checked under Spec *)

\* the integer each decimal string of the model denotes, written out
ExpectedInt(s) ==
    CASE s = <<"5">> -> 5
      [] s = <<"1", "2">> -> 12
      [] s = <<"1">> -> 1
      [] s = <<"-", "3">> -> 0 - 3
      [] s = <<"0">> -> 0
      [] s = <<"7">> -> 7
      [] s = <<"1", "0", "0">> -> 100

ConsensusEntries == validator_set_response["validators"]

BothFetched ==
    /\ op = "validators_with_voting_power"
    /\ pc \in {"loop", "done", "failed"}
    /\ Len(requests) = 2
    /\ \A i \in 1..2 : requests[i].status = "ok"

KeysInSet == {ConsensusEntries[j].pub_key : j \in 1..Len(ConsensusEntries)}

\* position of the last consensus entry with public key k
LastEntryWith(k) ==
    CHOOSE j \in 1..Len(ConsensusEntries) :
        /\ ConsensusEntries[j].pub_key = k
        /\ \A l \in (j + 1)..Len(ConsensusEntries) : ConsensusEntries[l].pub_key # k

\* position i holds the last staking record with its operator address
LastForOperator(i) ==
    \A l \in (i + 1)..Len(validators) :
        validators[l].operator_address # validators[i].operator_address

\* C1: a staking validator whose consensus public key is not in the index is
\* skipped: the call raises nothing and returns the entries of exactly the
\* validators whose key is found.
C1_LookupMissIsSkipped ==
    BothFetched =>
        /\ pc # "failed"
        /\ pc = "done" =>
              DOMAIN ret.value =
                 {validators[i].operator_address :
                     i \in {n \in 1..Len(validators) :
                               validators[n].consensus_pubkey \in KeysInSet}}

\* C2: a returned mapping has only operator addresses of the staking list as
\* keys, and each entry carries its staking record and the integer voting
\* power and proposer priority of a consensus entry with the record's
\* consensus public key.
C2_JoinIsSubsetAndMatches ==
    (op = "validators_with_voting_power" /\ pc = "done") =>
        /\ ret.kind = "value"
        /\ \A k \in DOMAIN ret.value :
              \E i \in 1..Len(validators) :
                 /\ validators[i].operator_address = k
                 /\ ret.value[k].validator_info = validators[i]
                 /\ \E j \in 1..Len(ConsensusEntries) :
                       /\ ConsensusEntries[j].pub_key = validators[i].consensus_pubkey
                       /\ ret.value[k].voting_power =
                             ExpectedInt(ConsensusEntries[j].voting_power)
                       /\ ret.value[k].proposer_priority =
                             ExpectedInt(ConsensusEntries[j].proposer_priority)

C2_Witness ==
    /\ op = "validators_with_voting_power"
    /\ pc = "done"
    /\ Len(validators) = 2
    /\ Cardinality(DOMAIN ret.value) = 2
    /\ \E k \in DOMAIN ret.value :
          ret.value[k].voting_power = 12 /\ ret.value[k].proposer_priority = 0 - 3

\* C6: a failed fetch makes the call fail with the error the fetch raised and
\* nothing is returned; a call that returns hands back the mapping joined over
\* the whole staking list; the mapping under construction is never handed out
\* otherwise.
C6_FailsAtomically ==
    /\ \A i \in 1..Len(requests) :
          requests[i].status \in TransportErrors =>
             pc = "failed" /\ err = requests[i].status /\ ret = NoResult
    /\ pc = "done" =>
          /\ \A i \in 1..Len(requests) : requests[i].status = "ok"
          /\ err = "none"
          /\ ret = Returned(res)
          /\ DOMAIN ret.value =
                {validators[i].operator_address : i \in 1..Len(validators)}
    /\ pc # "done" => ret = NoResult

C6_Witness ==
    /\ pc = "failed"
    /\ Len(requests) = 2
    /\ requests[1].status = "ok"
    /\ requests[2].status = "TimeoutError"
    /\ err = "TimeoutError"
    /\ Len(ConsensusEntries) > 0

\* C9: the index holds, for each public key, the last consensus entry with
\* that key, and every emitted validator carries that entry's voting power
\* and proposer priority.
C9_LastWriteWins ==
    (op = "validators_with_voting_power" /\ pc \in {"loop", "done"}) =>
        /\ DOMAIN validator_set = KeysInSet
        /\ \A k \in KeysInSet : validator_set[k] = ConsensusEntries[LastEntryWith(k)]
        /\ pc = "done" =>
              \A i \in 1..Len(validators) :
                 LastForOperator(i) =>
                    LET e == ConsensusEntries[LastEntryWith(validators[i].consensus_pubkey)]
                        out == ret.value[validators[i].operator_address]
                    IN  /\ out.voting_power = ExpectedInt(e.voting_power)
                        /\ out.proposer_priority = ExpectedInt(e.proposer_priority)

C9_Witness ==
    /\ op = "validators_with_voting_power"
    /\ pc = "done"
    /\ Len(ConsensusEntries) = 2
    /\ ConsensusEntries[1].pub_key = ConsensusEntries[2].pub_key
    /\ ConsensusEntries[1].voting_power = <<"5">>
    /\ ConsensusEntries[2].voting_power = <<"1", "2">>
    /\ \E k \in DOMAIN ret.value : ret.value[k].voting_power = 12

\* C10: at most one request is in flight; the staking request is issued only
\* once the consensus request has completed successfully, and never after it
\* failed.
C10_FetchesSequential ==
    op = "validators_with_voting_power" =>
        /\ Cardinality(InFlight) <= 1
        /\ Len(requests) >= 1
        /\ requests[1].req = "tendermint.validator_set"
        /\ \A i \in 1..Len(requests) :
              requests[i].req = "staking.validators" =>
                 i = 2 /\ requests[1].status = "ok"
        /\ requests[1].status \in TransportErrors => Len(requests) = 1
        /\ Len(requests) <= 2

C10_Witness ==
    /\ pc = "await_validators"
    /\ requests[1].status = "ok"
    /\ requests[2] = [req |-> "staking.validators", status |-> "pending"]

----------------------------------------------------------------------------
(* Properties of the distribution operations, checked under SpecDist *)

Answered(o) ==
    /\ op = o
    /\ pc \in {"done", "failed"}
    /\ Len(requests) >= 1
    /\ requests[1].status = "ok"

EmptyCoins == [type |-> "Coins", coins |-> <<>>]

\* the Coins a JSON coin array denotes, amounts written out
ExpectedCoins(l) ==
    [type |-> "Coins",
     coins |-> [i \in 1..Len(l) |->
                  [type |-> "Coin", denom |-> l[i].denom,
                   amount |-> ExpectedInt(l[i].amount)]]]

Empty(j) == j = JNull \/ j = JList(<<>>)

\* a Coins collection holding at least one coin: the zero uakt coin alone
\* when the response field f is null or empty, the parsed coins otherwise
NormalizedCoins(c, f) ==
    /\ c.type = "Coins"
    /\ Len(c.coins) >= 1
    /\ c = IF Empty(f)
           THEN [type |-> "Coins",
                 coins |-> <<[type |-> "Coin", denom |-> "uakt", amount |-> 0]>>]
           ELSE ExpectedCoins(f.v)

\* C3: for every validator response validator_rewards() returns
\* self_bond_rewards and val_commission as non-empty Coins collections, the
\* single zero uakt coin when the response's field is empty or absent.
C3_ZeroCoinIsCoins ==
    Answered("validator_rewards") =>
        /\ pc = "done"
        /\ NormalizedCoins(ret.value.self_bond_rewards, response.self_bond_rewards)
        /\ NormalizedCoins(ret.value.val_commission,
                           response.val_commission.commission)

\* C4: rewards() maps each returned entry's validator_address to that entry's
\* parsed coins, an entry whose reward is missing, null or empty to an empty
\* Coins, and raises nothing.
C4_MissingRewardIsEmpty ==
    (Answered("rewards") /\ response.rewards.t = "list" /\ response.total.t = "list") =>
        /\ pc = "done"
        /\ DOMAIN ret.value.rewards =
              {response.rewards.v[i].validator_address :
                  i \in 1..Len(response.rewards.v)}
        /\ \A i \in 1..Len(response.rewards.v) :
              LET item == response.rewards.v[i] IN
              (\A l \in (i + 1)..Len(response.rewards.v) :
                  response.rewards.v[l].validator_address # item.validator_address)
              => ret.value.rewards[item.validator_address] =
                    IF "reward" \in DOMAIN item /\ item.reward.t = "list"
                    THEN ExpectedCoins(item.reward.v) ELSE EmptyCoins

\* C5: for a delegator with no recorded rewards (rewards empty or null, total
\* empty or null) rewards() returns an empty mapping and an empty total.
C5_NoRewardsIsEmpty ==
    (Answered("rewards") /\ Empty(response.rewards) /\ Empty(response.total)) =>
        /\ pc = "done"
        /\ ret.value = [rewards |-> EmptyMap, total |-> EmptyCoins]

\* C7: every distribution operation issues exactly one GET per invocation,
\* whether it succeeds or fails; over all invocations there are as many GETs
\* as invocations.
C7_OneGetPerInvocation ==
    /\ gets = calls
    /\ op \in AddressOps \cup PlainOps =>
          /\ Len(requests) = 1
          /\ requests[1].req = Path(op, arg)
          /\ pc \in {"done", "failed"} => requests[1].status # "pending"

C7_Witness ==
    /\ pc = "failed"
    /\ op \in PlainOps
    /\ err \in TransportErrors
    /\ calls = 2
    /\ gets = 2

\* the addresses of the model that pass format validation
WellFormed(a) == a # "bad address"

\* C8 as stated: with a malformed address the call fails with a validation
\* error and no GET is ever issued.
C8_ValidatedBeforeGet ==
    (op \in AddressOps /\ ~WellFormed(arg)) =>
        /\ requests = <<>>
        /\ pc = "failed"
        /\ err = "ValidationError"

\* C8 as amended: with a malformed address the call does no validation; the
\* address goes into the request path as given, exactly one GET is issued and
\* the call's outcome is that of the request and of the response's decoding.
C8_MalformedAddressIsSent ==
    (op \in AddressOps /\ ~WellFormed(arg)) =>
        /\ Len(requests) = 1
        /\ requests[1].req = Path(op, arg)
        /\ err # "ValidationError"
        /\ pc = "failed" =>
              \/ err \in TransportErrors /\ requests[1].status = err
              \/ err \in {"KeyError", "TypeError"} /\ requests[1].status = "ok"

C8_Witness ==
    /\ op = "rewards"
    /\ arg = "bad address"
    /\ pc = "done"
    /\ requests = <<[req |-> <<"/distribution/delegators/", "bad address", "/rewards">>,
                     status |-> "ok"]>>

====
